---- MODULE Spec2Model ----
(***************************************************************************)
(* Model of script.py: the InteractiveCLI session (prompt, version,        *)
(* running), the startup entry point main(), and the read / echo /         *)
(* dispatch loop of InteractiveCLI.start, including the in-session         *)
(* re-parsing of "python script.py [options]" lines through shlex.split    *)
(* and the argparse parser built by create_parser.                         *)
(*                                                                         *)
(* Text is modelled by TLA+ strings; Len, \o and SubSeq act on them        *)
(* character by character.                                                 *)
(***************************************************************************)
EXTENDS Integers, Sequences, FiniteSets, TLC

(***************************************************************************)
(* Bounds of the model.                                                    *)
(***************************************************************************)
\* longest argument list the process is started with
MaxArgs == 3

(***************************************************************************)
(* String helpers (str methods used by the program).                       *)
(***************************************************************************)
Ch(s, i) == SubSeq(s, i, i)

Whitespace == {" ", "\t", "\r", "\n", "\f"}

RECURSIVE LStrip(_)
LStrip(s) ==
    IF Len(s) > 0 /\ Ch(s, 1) \in Whitespace
    THEN LStrip(SubSeq(s, 2, Len(s)))
    ELSE s

RECURSIVE RStrip(_)
RStrip(s) ==
    IF Len(s) > 0 /\ Ch(s, Len(s)) \in Whitespace
    THEN RStrip(SubSeq(s, 1, Len(s) - 1))
    ELSE s

\* str.strip()
Strip(s) == RStrip(LStrip(s))

UpperAlpha == "ABCDEFGHIJKLMNOPQRSTUVWXYZ"
LowerAlpha == "abcdefghijklmnopqrstuvwxyz"

LowerCh(c) ==
    IF \E i \in 1..26 : Ch(UpperAlpha, i) = c
    THEN Ch(LowerAlpha, CHOOSE i \in 1..26 : Ch(UpperAlpha, i) = c)
    ELSE c

\* str.lower()
RECURSIVE Lower(_)
Lower(s) ==
    IF Len(s) = 0 THEN ""
    ELSE LowerCh(Ch(s, 1)) \o Lower(SubSeq(s, 2, Len(s)))

\* str.startswith(p)
StartsWith(s, p) == Len(s) >= Len(p) /\ SubSeq(s, 1, Len(p)) = p

Contains(s, c) == \E i \in 1..Len(s) : Ch(s, i) = c

\* " ".join(toks)
RECURSIVE Join(_)
Join(toks) ==
    IF Len(toks) = 0 THEN ""
    ELSE IF Len(toks) = 1 THEN toks[1]
    ELSE toks[1] \o " " \o Join(Tail(toks))

(***************************************************************************)
(* shlex.split(s): POSIX-mode tokenizer, whitespace_split, no comments.    *)
(* st is the lexer state: " " between tokens, "a" inside a word, a quote   *)
(* character inside quotes, "\\" after an escape (esc holds the state to   *)
(* return to).  quoted records that the current token had a quoted part,   *)
(* so that an empty quoted token is kept.                                  *)
(***************************************************************************)
ShlexWhitespace == {" ", "\t", "\r", "\n"}
ShlexQuotes == {"'", "\""}

Emit(toks, tok, quoted) ==
    IF tok # "" \/ quoted THEN Append(toks, tok) ELSE toks

RECURSIVE ShlexRun(_, _, _, _, _, _, _)
ShlexRun(s, i, st, esc, tok, quoted, toks) ==
    IF i > Len(s) THEN
        IF st \in ShlexQuotes
        THEN [ok |-> FALSE, msg |-> "No closing quotation", toks |-> <<>>]
        ELSE IF st = "\\"
        THEN [ok |-> FALSE, msg |-> "No escaped character", toks |-> <<>>]
        ELSE [ok |-> TRUE, msg |-> "", toks |-> Emit(toks, tok, quoted)]
    ELSE LET c == Ch(s, i) IN
        IF st = " " \/ st = "a" THEN
            IF c \in ShlexWhitespace
            THEN ShlexRun(s, i + 1, " ", esc, "", FALSE, Emit(toks, tok, quoted))
            ELSE IF c = "\\"
            THEN ShlexRun(s, i + 1, "\\", "a", tok, quoted, toks)
            ELSE IF c \in ShlexQuotes
            THEN ShlexRun(s, i + 1, c, esc, tok, TRUE, toks)
            ELSE ShlexRun(s, i + 1, "a", esc, tok \o c, quoted, toks)
        ELSE IF st \in ShlexQuotes THEN
            IF c = st
            THEN ShlexRun(s, i + 1, "a", esc, tok, quoted, toks)
            ELSE IF c = "\\" /\ st = "\""
            THEN ShlexRun(s, i + 1, "\\", st, tok, quoted, toks)
            ELSE ShlexRun(s, i + 1, st, esc, tok \o c, quoted, toks)
        ELSE \* st = "\\": the character after an escape
            IF esc \in ShlexQuotes /\ c # "\\" /\ c # esc
            THEN ShlexRun(s, i + 1, esc, esc, tok \o "\\" \o c, quoted, toks)
            ELSE ShlexRun(s, i + 1, esc, esc, tok \o c, quoted, toks)

ShlexSplit(s) == ShlexRun(s, 1, " ", "a", "", FALSE, <<>>)

\* list[2:]
DropTwo(toks) == IF Len(toks) <= 2 THEN <<>> ELSE SubSeq(toks, 3, Len(toks))

(***************************************************************************)
(* The parser built by create_parser: three optionals, no positionals,     *)
(* add_help=False, abbreviations allowed (the argparse default).           *)
(* parse_args is modelled as argparse (Python 3.11) computes it: each      *)
(* argument string is classified, options are consumed left to right,      *)
(* and a string that is neither an option nor an option's value makes the  *)
(* parse fail.  An explicit value "--" (--prompt=--) yields an empty list, *)
(* which is as false as the empty string and is modelled by it.            *)
(***************************************************************************)
OptionStrings == <<"-h", "--help", "-v", "--version", "-p", "--prompt">>

IsOption(t) == \E k \in 1..Len(OptionStrings) : OptionStrings[k] = t

\* dest of the action registered for an option string
ActionOf(opt) ==
    IF opt \in {"-h", "--help"} THEN "help"
    ELSE IF opt \in {"-v", "--version"} THEN "version"
    ELSE "prompt"

Digits == {"0", "1", "2", "3", "4", "5", "6", "7", "8", "9"}

AllDigits(s) == \A i \in 1..Len(s) : Ch(s, i) \in Digits

\* index of the first occurrence of character c in s, 0 when absent
IndexOf(s, c) ==
    IF Contains(s, c)
    THEN CHOOSE i \in 1..Len(s) : Ch(s, i) = c /\ \A j \in 1..(i - 1) : Ch(s, j) # c
    ELSE 0

\* the parser's negative-number pattern: -\d+ or -\d*\.\d+
LooksNegativeNumber(t) ==
    /\ Len(t) >= 2
    /\ Ch(t, 1) = "-"
    /\ LET body == SubSeq(t, 2, Len(t))
           dot == IndexOf(body, ".")
       IN  \/ AllDigits(body)
           \/ /\ dot > 0
              /\ dot < Len(body)
              /\ AllDigits(SubSeq(body, 1, dot - 1))
              /\ AllDigits(SubSeq(body, dot + 1, Len(body)))

Positional == [kind |-> "A", opt |-> "", hasExp |-> FALSE, exp |-> ""]

Optional(opt, hasExp, exp) == [kind |-> "O", opt |-> opt, hasExp |-> hasExp, exp |-> exp]

\* the long options an abbreviated --token stands for
LongMatches(prefix) ==
    {k \in 1..Len(OptionStrings) :
        StartsWith(OptionStrings[k], "--") /\ StartsWith(OptionStrings[k], prefix)}

\* classification of one argument string: "A" positional, "O" a known
\* option (with an explicit argument when one is attached), "X" an option
\* this parser does not have, "E" an ambiguous abbreviation
ParseOptional(t) ==
    IF t = "" THEN Positional
    ELSE IF Ch(t, 1) # "-" THEN Positional
    ELSE IF IsOption(t) THEN Optional(t, FALSE, "")
    ELSE IF Len(t) = 1 THEN Positional
    ELSE LET eq == IndexOf(t, "=")
             left == IF eq > 0 THEN SubSeq(t, 1, eq - 1) ELSE t
             right == IF eq > 0 THEN SubSeq(t, eq + 1, Len(t)) ELSE ""
         IN
         IF eq > 0 /\ IsOption(left) THEN Optional(left, TRUE, right)
         ELSE IF Ch(t, 2) = "-" /\ Cardinality(LongMatches(left)) > 1
         THEN [kind |-> "E", opt |-> t, hasExp |-> FALSE, exp |-> ""]
         ELSE IF Ch(t, 2) = "-" /\ Cardinality(LongMatches(left)) = 1
         THEN Optional(OptionStrings[CHOOSE k \in LongMatches(left) : TRUE], eq > 0, right)
         ELSE IF Ch(t, 2) # "-" /\ IsOption(SubSeq(t, 1, 2))
         THEN Optional(SubSeq(t, 1, 2), TRUE, SubSeq(t, 3, Len(t)))
         ELSE IF LooksNegativeNumber(t) THEN Positional
         ELSE IF Contains(t, " ") THEN Positional
         ELSE [kind |-> "X", opt |-> t, hasExp |-> FALSE, exp |-> ""]

\* position of the first "--" in the argument list, 0 when there is none
FirstDashDash(toks) ==
    IF \E i \in 1..Len(toks) : toks[i] = "--"
    THEN CHOOSE i \in 1..Len(toks) :
            toks[i] = "--" /\ \A j \in 1..(i - 1) : toks[j] # "--"
    ELSE 0

\* the pattern letter of argument i: "O", "X" (an unknown option, also "O"
\* in the pattern), "A", "-" for the first "--", "E" for an ambiguity
KindAt(toks, i) ==
    LET dd == FirstDashDash(toks) IN
    IF i > Len(toks) THEN "$"
    ELSE IF dd > 0 /\ i = dd THEN "-"
    ELSE IF dd > 0 /\ i > dd THEN "A"
    ELSE ParseOptional(toks[i]).kind

EmptyNamespace == [help |-> FALSE, version |-> FALSE, hasPrompt |-> FALSE, prompt |-> ""]

Failure(msg) == [ok |-> FALSE, msg |-> msg, ns |-> EmptyNamespace, next |-> 0]

TakeAction(ns, action, value) ==
    IF action = "help" THEN [ns EXCEPT !.help = TRUE]
    ELSE IF action = "version" THEN [ns EXCEPT !.version = TRUE]
    ELSE [ns EXCEPT !.hasPrompt = TRUE, !.prompt = value]

ActionName(action) ==
    IF action = "help" THEN "-h/--help"
    ELSE IF action = "version" THEN "-v/--version"
    ELSE "-p/--prompt"

\* repr() of a string as argparse prints it in a message
Repr(s) == "'" \o s \o "'"

\* consume_optional: the option at index i, whose option string is opt,
\* with explicit argument exp when hasExp
RECURSIVE ConsumeOptional(_, _, _, _, _, _)
ConsumeOptional(toks, i, opt, hasExp, exp, ns) ==
    LET action == ActionOf(opt) IN
    IF hasExp THEN
        IF action # "prompt" /\ Ch(opt, 2) # "-" /\ exp # ""
        THEN LET nopt == "-" \o Ch(exp, 1)
                 nexp == SubSeq(exp, 2, Len(exp))
             IN  IF IsOption(nopt)
                 THEN ConsumeOptional(toks, i, nopt, nexp # "", nexp,
                                      TakeAction(ns, action, ""))
                 ELSE Failure("argument " \o ActionName(action)
                              \o ": ignored explicit argument " \o Repr(exp))
        ELSE IF action = "prompt"
        THEN [ok |-> TRUE, msg |-> "",
              ns |-> TakeAction(ns, action, IF exp = "--" THEN "" ELSE exp),
              next |-> i + 1]
        ELSE Failure("argument " \o ActionName(action)
                     \o ": ignored explicit argument " \o Repr(exp))
    ELSE IF action = "prompt" THEN
        IF KindAt(toks, i + 1) = "A"
        THEN [ok |-> TRUE, msg |-> "", ns |-> TakeAction(ns, action, toks[i + 1]),
              next |-> i + 2]
        ELSE Failure("argument " \o ActionName(action) \o ": expected one argument")
    ELSE [ok |-> TRUE, msg |-> "", ns |-> TakeAction(ns, action, ""), next |-> i + 1]

\* the consume loop of the parser: options are applied left to right, every
\* string that is neither an option nor an option's value is an extra
ConsumeAt(toks, i, po, ns) == ConsumeOptional(toks, i, po.opt, po.hasExp, po.exp, ns)

RECURSIVE ParseLoop(_, _, _, _)
RECURSIVE Continue(_, _, _)
ParseLoop(toks, i, ns, extras) ==
    IF i > Len(toks) THEN
        IF Len(extras) > 0
        THEN Failure("unrecognized arguments: " \o Join(extras))
        ELSE [ok |-> TRUE, msg |-> "", ns |-> ns, next |-> i]
    ELSE IF KindAt(toks, i) = "O"
    THEN Continue(toks, ConsumeAt(toks, i, ParseOptional(toks[i]), ns), extras)
    ELSE ParseLoop(toks, i + 1, ns, Append(extras, toks[i]))

\* after consume_optional returned r: go on from where it stopped
Continue(toks, r, extras) ==
    IF r.ok THEN ParseLoop(toks, r.next, r.ns, extras) ELSE r

\* parser.parse_args(toks): ok with the namespace, or the message of the
\* error with which argparse exits (status 2)
ParseArgs(toks) ==
    IF \E i \in 1..Len(toks) : KindAt(toks, i) = "E"
    THEN LET i == CHOOSE k \in 1..Len(toks) :
                    KindAt(toks, k) = "E" /\ \A j \in 1..(k - 1) : KindAt(toks, j) # "E"
         IN  Failure("ambiguous option: " \o toks[i]
                     \o " could match --help, --version, --prompt")
    ELSE ParseLoop(toks, 1, EmptyNamespace, <<>>)

\* what argparse writes to stderr before exiting with status 2
Usage == "usage: script.py [-h] [-v] [-p PROMPT]\n"

ErrorText(msg) == Usage \o "script.py: error: " \o msg \o "\n"

(***************************************************************************)
(* Output.  Every write to the terminal is one event: "typewriter" for     *)
(* typewriter_effect (one character at a time, then a newline), "print"    *)
(* for a direct print, "echo" for echo_input's direct print of the line    *)
(* in the italic / bright-black style, "input" for the prompt that input() *)
(* displays, "stderr" for what argparse writes before it exits.            *)
(***************************************************************************)
Typewriter(text) == [via |-> "typewriter", text |-> text]

PrintLine(text) == [via |-> "print", text |-> text]

\* the echo sent through the typewriter like every other output
EchoInput_Typewriter(user_input) ==
    [via |-> "typewriter", text |-> "User: " \o user_input]

\* echo_input: an immediate styled print of what the user typed
EchoInput(user_input) == [via |-> "echo", text |-> "User: " \o user_input]

InputPrompt(p) == [via |-> "input", text |-> p]

Stderr(text) == [via |-> "stderr", text |-> text]

DefaultPrompt == "> "

DefaultVersion == "1.0.0"

ShowVersion(v) == Typewriter("Interactive CLI Version " \o v)

HelpText ==
    "\nAvailable commands:\n"
    \o "  help                  - Show this help message\n"
    \o "  version               - Show program version\n"
    \o "  exit/quit             - Exit the program\n"
    \o "  python script.py [options] - Execute as command line args\n"
    \o "Options:\n"
    \o "  -h, --help           - Show help\n"
    \o "  -v, --version        - Show version\n"
    \o "  -p PROMPT, --prompt PROMPT - Change prompt temporarily\n"

ShowHelp == Typewriter(HelpText)

\* a process_input that normalises the case of what it quotes
ProcessInput_Lowered(user_input) == "System: You said '" \o Lower(user_input) \o "'"

\* process_input
ProcessInput(user_input) == "System: You said '" \o user_input \o "'"

\* truth value of args.prompt: None and the empty string are false
PromptGiven(ns) == ns.hasPrompt /\ ns.prompt # ""

PromptChanged(old, new) ==
    Typewriter("Prompt changed from '" \o old \o "' to '" \o new \o "'")

\* the chain written as three independent `if` tests instead of if / elif
ApplyArgs_IndependentTests(r, p, v) ==
    IF ~r.ok
    THEN [out |-> <<Stderr(ErrorText(r.msg))>>, prompt |-> p]
    ELSE [out |-> (IF r.ns.help THEN <<ShowHelp>> ELSE <<>>)
                  \o (IF r.ns.version THEN <<ShowVersion(v)>> ELSE <<>>)
                  \o (IF PromptGiven(r.ns) THEN <<PromptChanged(p, r.ns.prompt)>> ELSE <<>>),
          prompt |-> IF PromptGiven(r.ns) THEN r.ns.prompt ELSE p]

\* the chain with the prompt assignment hoisted above it: the prompt is
\* taken from the arguments whatever branch prints
ApplyArgs_PromptHoisted(r, p, v) ==
    IF ~r.ok
    THEN [out |-> <<Stderr(ErrorText(r.msg))>>, prompt |-> p]
    ELSE [out    |-> IF r.ns.help THEN <<ShowHelp>>
                     ELSE IF r.ns.version THEN <<ShowVersion(v)>>
                     ELSE IF PromptGiven(r.ns) THEN <<PromptChanged(p, r.ns.prompt)>>
                     ELSE <<>>,
          prompt |-> IF PromptGiven(r.ns) THEN r.ns.prompt ELSE p]

\* the chain with the parser's message to stderr lost
ApplyArgs_SilentFailure(r, p, v) ==
    IF ~r.ok
    THEN [out |-> <<>>, prompt |-> p]
    ELSE IF r.ns.help
    THEN [out |-> <<ShowHelp>>, prompt |-> p]
    ELSE IF r.ns.version
    THEN [out |-> <<ShowVersion(v)>>, prompt |-> p]
    ELSE IF PromptGiven(r.ns)
    THEN [out |-> <<PromptChanged(p, r.ns.prompt)>>, prompt |-> r.ns.prompt]
    ELSE [out |-> <<>>, prompt |-> p]

\* the chain tested in the order prompt, version, help
ApplyArgs_PromptFirst(r, p, v) ==
    IF ~r.ok
    THEN [out |-> <<Stderr(ErrorText(r.msg))>>, prompt |-> p]
    ELSE IF PromptGiven(r.ns)
    THEN [out |-> <<PromptChanged(p, r.ns.prompt)>>, prompt |-> r.ns.prompt]
    ELSE IF r.ns.version
    THEN [out |-> <<ShowVersion(v)>>, prompt |-> p]
    ELSE IF r.ns.help
    THEN [out |-> <<ShowHelp>>, prompt |-> p]
    ELSE [out |-> <<>>, prompt |-> p]

\* the if / elif chain of handle_cli_args on the parser's result r.  An
\* argparse failure has written its message to stderr and raised
\* SystemExit, which is swallowed.
ApplyArgs(r, p, v) ==
    IF ~r.ok
    THEN [out |-> <<Stderr(ErrorText(r.msg))>>, prompt |-> p]
    ELSE IF r.ns.help
    THEN [out |-> <<ShowHelp>>, prompt |-> p]
    ELSE IF r.ns.version
    THEN [out |-> <<ShowVersion(v)>>, prompt |-> p]
    ELSE IF PromptGiven(r.ns)
    THEN [out |-> <<PromptChanged(p, r.ns.prompt)>>, prompt |-> r.ns.prompt]
    ELSE [out |-> <<>>, prompt |-> p]

\* variant: the exception shlex raises escapes the handler and the loop,
\* reported as a session that a tokenization error would stop
Invocation_StopsOnBadQuotes(user_input, h) ==
    [out     |-> <<EchoInput(user_input)>> \o h.out,
     prompt  |-> h.prompt,
     running |-> ShlexSplit(user_input).ok]

\* the handler with `except Exception: pass`: shlex's error is swallowed too
ParseTokens_SilentBadQuotes(sp, p, v) ==
    IF ~sp.ok
    THEN [out |-> <<>>, prompt |-> p]
    ELSE ApplyArgs(ParseArgs(DropTwo(sp.toks)), p, v)

\* the try body of handle_cli_args on shlex's result sp; an exception other
\* than SystemExit (shlex's ValueError) is reported through the typewriter
ParseTokens(sp, p, v) ==
    IF ~sp.ok
    THEN [out |-> <<Typewriter("Error parsing arguments: " \o sp.msg)>>, prompt |-> p]
    ELSE ApplyArgs(ParseArgs(DropTwo(sp.toks)), p, v)

\* handle_cli_args: the output it produces and the prompt it leaves
HandleCliArgs(args_str, p, v) == ParseTokens(ShlexSplit(args_str), p, v)

InvocationPrefix == "python script.py"

\* an invocation whose parser exit is not swallowed ends the loop
Invocation_StopsOnFailure(user_input, h) ==
    [out |-> <<EchoInput(user_input)>> \o h.out, prompt |-> h.prompt,
     running |-> \A i \in 1..Len(h.out) : h.out[i].via # "stderr"]

\* the loop body after the echo, for a line that is an invocation
Invocation(user_input, h) ==
    [out |-> <<EchoInput(user_input)>> \o h.out, prompt |-> h.prompt, running |-> TRUE]

\* the loop without the empty-line test
IsBlank_Never(user_input) == FALSE

\* `not user_input`
IsBlank(user_input) == user_input = ""

\* the comparison without .lower()
IsExitCommand_CaseSensitive(user_input) == user_input \in {"exit", "quit"}

\* user_input.lower() in ('exit', 'quit')
IsExitCommand(user_input) == Lower(user_input) \in {"exit", "quit"}

\* the loop body on the stripped line: output, prompt and running flag
Dispatch(user_input, p, v) ==
    IF IsBlank(user_input)
    THEN [out |-> <<>>, prompt |-> p, running |-> TRUE]
    ELSE IF StartsWith(user_input, InvocationPrefix)
    THEN Invocation(user_input, HandleCliArgs(user_input, p, v))
    ELSE IF IsExitCommand(user_input)
    THEN [out |-> <<EchoInput(user_input), Typewriter("Goodbye!")>>, prompt |-> p,
          running |-> FALSE]
    ELSE IF Lower(user_input) = "version"
    THEN [out |-> <<EchoInput(user_input), ShowVersion(v)>>, prompt |-> p,
          running |-> TRUE]
    ELSE IF Lower(user_input) = "help"
    THEN [out |-> <<EchoInput(user_input), ShowHelp>>, prompt |-> p, running |-> TRUE]
    ELSE [out |-> <<EchoInput(user_input), Typewriter(ProcessInput(user_input))>>,
          prompt |-> p, running |-> TRUE]

\* one loop iteration in which input() returned line
Iteration(line, p, v) == Dispatch(Strip(line), p, v)

(***************************************************************************)
(* Inputs.                                                                 *)
(***************************************************************************)
SeqsUpTo(S, n) == UNION {[1..k -> S] : k \in 0..n}

\* argument strings the process may be started with
ArgWords == {"-h", "-v", "-p", "** ", "--bogus", ""}

ArgLists == SeqsUpTo(ArgWords, MaxArgs)

\* lines the terminal may deliver to input()
BlankLines == {"", "   ", " \t "}

TextLines ==
    {"hello", "  Hi There  ", "quit now", "helper", "PYTHON SCRIPT.PY -h",
     "Python script.py -v", "say \"hi\""}

BuiltinLines == {"exit", "QUIT", " Exit ", "quit", "version", "Version", "HELP", "help"}

\* what is typed after "python script.py" on an in-session invocation line
Suffixes ==
    { "", " -h", " --help", " -v", " --version", " -h -v", " -v -h", " -hv",
      " -p \"NEW> \"", " --prompt x", " --prompt=x", " -p \"\"", " -p x -p \"NEW> \"",
      " -h -p x", " -p x -h", " -v -p x", " -p x -v", " --prompt \"NEW> \" -v -h",
      " --bogus", " -x", " extra", " -p", " --prompt", " --bogus -h", " -h --bogus",
      " -p 'unbalanced", " \"unbalanced -h", " --he", "-h", "c -v", " -p x  " }

InvocationLines == {InvocationPrefix \o sfx : sfx \in Suffixes}

Lines == BlankLines \cup TextLines \cup BuiltinLines \cup InvocationLines

(***************************************************************************)
(* State.                                                                  *)
(***************************************************************************)
VARIABLES
    argv,       \* sys.argv[1:]
    pc,         \* "main" before main() runs, "loop" in start()'s while, "exited"
    prompt,     \* cli.prompt
    version,    \* cli.version
    running,    \* cli.running
    exitCode,   \* exit status of the process, -1 while it runs
    last,       \* what the latest step consumed: kind and, for a line, its text
    out         \* the terminal output of the latest step, in order

vars == <<argv, pc, prompt, version, running, exitCode, last, out>>

NoInput == [kind |-> "none", line |-> ""]

\* InteractiveCLI() as main() constructs it
Init ==
    /\ argv \in ArgLists
    /\ pc = "main"
    /\ prompt = DefaultPrompt
    /\ version = DefaultVersion
    /\ running = FALSE
    /\ exitCode = -1
    /\ last = NoInput
    /\ out = <<>>

StartupUsage ==
    << PrintLine("Usage: python script.py [options]"),
       PrintLine("Options:"),
       PrintLine("  -h, --help     show this help message and exit"),
       PrintLine("  -v, --version  show program's version number and exit"),
       PrintLine("  -p PROMPT, --prompt PROMPT"),
       PrintLine("                set the command prompt (default: '> ')") >>

Banner(v) ==
    << Typewriter("Interactive CLI (Version " \o v \o ")"),
       Typewriter("Type 'help' for available commands.") >>

Exit(code, output) ==
    /\ pc' = "exited"
    /\ exitCode' = code
    /\ out' = output
    /\ UNCHANGED <<prompt, running>>

\* main() without the version branch: -v alone no longer ends the process
Main_VersionContinues ==
    /\ pc = "main"
    /\ last' = [kind |-> "argv", line |-> ""]
    /\ UNCHANGED <<argv, version>>
    /\ \E r \in {ParseArgs(argv)} :
       IF ~r.ok THEN Exit(2, <<Stderr(ErrorText(r.msg))>>)
       ELSE IF r.ns.help THEN Exit(0, StartupUsage)
       ELSE /\ prompt' = IF PromptGiven(r.ns) THEN r.ns.prompt ELSE prompt
            /\ running' = TRUE
            /\ out' = Banner(version)
            /\ pc' = "loop"
            /\ UNCHANGED exitCode

\* main(): parse the process arguments, then either exit or enter start()
\* up to its first evaluation of the while condition
Main ==
    /\ pc = "main"
    /\ last' = [kind |-> "argv", line |-> ""]
    /\ UNCHANGED <<argv, version>>
    /\ \E r \in {ParseArgs(argv)} :
       IF ~r.ok THEN Exit(2, <<Stderr(ErrorText(r.msg))>>)
       ELSE IF r.ns.help THEN Exit(0, StartupUsage)
       ELSE IF r.ns.version THEN Exit(0, <<ShowVersion(version)>>)
       ELSE /\ prompt' = IF PromptGiven(r.ns) THEN r.ns.prompt ELSE prompt
            /\ running' = TRUE
            /\ out' = Banner(version)
            /\ pc' = "loop"
            /\ UNCHANGED exitCode

\* one iteration of the while loop in which input() returns a line
ReadLine(line) ==
    /\ pc = "loop"
    /\ running
    /\ \E it \in {Iteration(line, prompt, version)} :
       /\ out' = <<InputPrompt(prompt)>> \o it.out
       /\ prompt' = it.prompt
       /\ running' = it.running
    /\ last' = [kind |-> "line", line |-> line]
    /\ UNCHANGED <<argv, pc, version, exitCode>>

\* KeyboardInterrupt handled like EOFError
Interrupt_EndsSession ==
    /\ pc = "loop"
    /\ running
    /\ out' = << InputPrompt(prompt),
                 Typewriter("\nUse 'exit' or 'quit' to end the session.") >>
    /\ running' = FALSE
    /\ last' = [kind |-> "interrupt", line |-> ""]
    /\ UNCHANGED <<argv, pc, prompt, version, exitCode>>

\* one iteration in which input() raises KeyboardInterrupt
Interrupt ==
    /\ pc = "loop"
    /\ running
    /\ out' = << InputPrompt(prompt),
                 Typewriter("\nUse 'exit' or 'quit' to end the session.") >>
    /\ last' = [kind |-> "interrupt", line |-> ""]
    /\ UNCHANGED <<argv, pc, prompt, version, running, exitCode>>

\* the EOFError handler without `self.running = False`
EndOfInput_KeepsRunning ==
    /\ pc = "loop"
    /\ running
    /\ out' = <<InputPrompt(prompt), Typewriter("\nGoodbye!")>>
    /\ last' = [kind |-> "eof", line |-> ""]
    /\ UNCHANGED <<argv, pc, prompt, version, running, exitCode>>

\* one iteration in which input() raises EOFError
EndOfInput ==
    /\ pc = "loop"
    /\ running
    /\ out' = <<InputPrompt(prompt), Typewriter("\nGoodbye!")>>
    /\ running' = FALSE
    /\ last' = [kind |-> "eof", line |-> ""]
    /\ UNCHANGED <<argv, pc, prompt, version, exitCode>>

\* the while condition is false: start() returns, main() returns, and the
\* interpreter exits with status 0
Return ==
    /\ pc = "loop"
    /\ ~running
    /\ pc' = "exited"
    /\ exitCode' = 0
    /\ UNCHANGED <<argv, prompt, version, running, last, out>>

Next ==
    \/ Main
    \/ \E line \in Lines : ReadLine(line)
    \/ Interrupt
    \/ EndOfInput
    \/ Return

Spec == Init /\ [][Next]_vars

\* the program is sequential: once the while condition is false, start()
\* returns and the process ends
FairSpec == Spec /\ WF_vars(Return)

TypeOK ==
    /\ pc \in {"main", "loop", "exited"}
    /\ running \in BOOLEAN
    /\ exitCode \in {-1, 0, 2}
    /\ version = DefaultVersion

(***************************************************************************)
(* Vocabulary of the properties.                                           *)
(***************************************************************************)
\* the step is a loop iteration in which input() returned line l (the
\* properties below apply it to the line the step records in last)
ReadStep(l) ==
    pc = "loop" /\ running /\ last' = [kind |-> "line", line |-> l]

\* the step is a loop iteration: input() displayed the prompt and returned
\* a line, or raised KeyboardInterrupt or EOFError
InputRead ==
    /\ pc = "loop" /\ running
    /\ last'.kind \in {"line", "interrupt", "eof"}
    /\ Len(out') >= 1 /\ out'[1] = InputPrompt(prompt)

IsResponse(e) == e.via \notin {"input", "echo"}

\* what an iteration printed besides the prompt and the echo of the line
Responses(o) == SelectSeq(o, IsResponse)

AllWhitespace(l) == \A i \in 1..Len(l) : Ch(l, i) \in Whitespace

\* the line is free text: not blank, not an invocation, not a builtin
IsFreeText(l) ==
    /\ ~AllWhitespace(l)
    /\ ~StartsWith(Strip(l), "python script.py")
    /\ Lower(Strip(l)) \notin {"exit", "quit", "version", "help"}

(***************************************************************************)
(* C1: for every input line whose trimmed text is non-empty, does not      *)
(* start with "python script.py" and in lowercase is none of exit, quit,   *)
(* version, help, the response printed in that iteration is exactly        *)
(* "System: You said '<input>'" with <input> the trimmed original text     *)
(* (case preserved), and prompt and running are unchanged.                 *)
(***************************************************************************)
C1_FreeTextResponse ==
    [][\A l \in {last'.line} :
        (ReadStep(l) /\ IsFreeText(l)) =>
            /\ Responses(out') = <<Typewriter("System: You said '" \o Strip(l) \o "'")>>
            /\ prompt' = prompt
            /\ running' = running]_vars

C1_Witness ==
    /\ last = [kind |-> "line", line |-> "  Hi There  "]
    /\ Responses(out) = <<Typewriter("System: You said 'Hi There'")>>
    /\ pc = "loop" /\ running

(***************************************************************************)
(* C2: after a line whose lowercase trimmed text is exit or quit, in any   *)
(* letter case, the loop prints a farewell and sets running to false, and  *)
(* no input is read afterwards: the only step left is the return of        *)
(* start(), which reads and prints nothing.                                *)
(***************************************************************************)
IsExitLine(l) == Lower(Strip(l)) \in {"exit", "quit"}

C2_ExitStopsReading ==
    [][/\ \A l \in {last'.line} :
            (ReadStep(l) /\ IsExitLine(l)) =>
                /\ Responses(out') = <<Typewriter("Goodbye!")>>
                /\ ~running'
       /\ (last.kind = "line" /\ IsExitLine(last.line)) =>
                /\ ~InputRead
                /\ last' = last /\ out' = out /\ prompt' = prompt /\ ~running'
                /\ pc' = "exited"]_vars

C2_Witness ==
    /\ last = [kind |-> "line", line |-> "QUIT"]
    /\ ~running
    /\ pc = "exited"

\* the line is classified as an invocation of the program
IsInvocationLine(l) == StartsWith(Strip(l), "python script.py")

\* shell-style tokenization of the line succeeds
Tokenizes(l) == ShlexSplit(Strip(l)).ok

\* what the flag parser makes of the line's tokens after the first two
FlagsOf(l) == ParseArgs(DropTwo(ShlexSplit(Strip(l)).toks))

\* the flags parse, a prompt value is among them, help and version are not
PromptOnly(r) == r.ok /\ r.ns.hasPrompt /\ ~r.ns.help /\ ~r.ns.version

IsConfirmation(e) == StartsWith(e.text, "Prompt changed from")

(***************************************************************************)
(* C3: for every in-session invocation line that carries the prompt flag   *)
(* with a value V and neither help nor version, prompt becomes V, a        *)
(* confirmation naming the old and the new prompt is printed, and every    *)
(* input read displays the prompt the session holds at that read.          *)
(***************************************************************************)
C3_InSessionPrompt ==
    [][/\ \A l \in {last'.line} : \A r \in {FlagsOf(l)} :
            (ReadStep(l) /\ IsInvocationLine(l) /\ Tokenizes(l) /\ PromptOnly(r)) =>
                /\ prompt' = r.ns.prompt
                /\ Responses(out') =
                     <<Typewriter("Prompt changed from '" \o prompt \o "' to '"
                                  \o r.ns.prompt \o "'")>>
       /\ (pc = "loop" /\ running) => InputRead]_vars

(***************************************************************************)
(* C4: for every startup argument list that carries the prompt flag with   *)
(* a value V and neither help nor version, the first input read of the     *)
(* session displays V, and no prompt-change confirmation is printed before *)
(* that read.                                                              *)
(***************************************************************************)
C4_StartupPrompt ==
    [][\A r \in {ParseArgs(argv)} :
        PromptOnly(r) =>
            /\ pc = "main" =>
                 /\ pc' = "loop"
                 /\ \A i \in 1..Len(out') : ~IsConfirmation(out'[i])
            /\ (pc = "loop" /\ running /\ last.kind = "argv") =>
                 /\ Len(out') >= 1
                 /\ out'[1] = InputPrompt(r.ns.prompt)]_vars

(***************************************************************************)
(* C5: when an in-session invocation line sets several flags, at most one  *)
(* action fires, chosen by the precedence help > version > prompt: with    *)
(* help set only the help text is printed; with version set and help not   *)
(* set only the version string is printed; and whenever help or version is *)
(* set, prompt is unchanged and no confirmation is printed.                *)
(***************************************************************************)
C5_Precedence ==
    [][\A l \in {last'.line} : \A r \in {FlagsOf(l)} :
        (ReadStep(l) /\ IsInvocationLine(l) /\ Tokenizes(l) /\ r.ok) =>
            /\ Len(Responses(out')) <= 1
            /\ r.ns.help =>
                 /\ Responses(out') = <<Typewriter(HelpText)>>
                 /\ prompt' = prompt
            /\ (r.ns.version /\ ~r.ns.help) =>
                 /\ Responses(out') = <<Typewriter("Interactive CLI Version " \o version)>>
                 /\ prompt' = prompt]_vars

C5_Witness ==
    /\ last = [kind |-> "line", line |-> "python script.py --prompt \"NEW> \" -v -h"]
    /\ Responses(out) = <<Typewriter(HelpText)>>
    /\ prompt = "> "
    /\ pc = "loop" /\ running

\* the line is an invocation whose tokens the flag parser rejects
FailedParse(l) == IsInvocationLine(l) /\ Tokenizes(l) /\ ~FlagsOf(l).ok

EndsWith(s, t) == Len(s) >= Len(t) /\ SubSeq(s, Len(s) - Len(t) + 1, Len(s)) = t

(***************************************************************************)
(* C6: for every in-session invocation line whose flags fail to parse (an  *)
(* unknown flag, a prompt flag with no value), prompt and running keep     *)
(* their values and the loop continues: the next step is another input     *)
(* read, and a free-text line read then gets its usual response.           *)
(***************************************************************************)
C6_ParseFailureKeepsSession ==
    [][/\ \A l \in {last'.line} :
            (ReadStep(l) /\ FailedParse(l)) =>
                /\ prompt' = prompt /\ version' = version
                /\ running' /\ pc' = "loop" /\ exitCode' = -1
       /\ (last.kind = "line" /\ FailedParse(last.line)) =>
            /\ InputRead
            /\ \A l \in {last'.line} :
                 (ReadStep(l) /\ IsFreeText(l)) =>
                    Responses(out') =
                        <<Typewriter("System: You said '" \o Strip(l) \o "'")>>]_vars

C6_Witness ==
    /\ last = [kind |-> "line", line |-> "python script.py -p"]
    /\ prompt = "NEW> "
    /\ pc = "loop" /\ running /\ exitCode = -1

C8_BlankLineIsSkipped ==
    [][\A l \in {last'.line} :
        (ReadStep(l) /\ AllWhitespace(l)) =>
            /\ out' = <<InputPrompt(prompt)>>
            /\ prompt' = prompt /\ running' = running /\ version' = version
            /\ pc' = "loop" /\ exitCode' = exitCode]_vars

C8_Witness ==
    /\ last = [kind |-> "line", line |-> " \t "]
    /\ out = <<InputPrompt("NEW> ")>>
    /\ prompt = "NEW> "
    /\ pc = "loop" /\ running

(***************************************************************************)
(* C9: when end-of-input occurs at an input read, the session prints a     *)
(* farewell and sets running to false; no input is read afterwards, the    *)
(* only step left being the normal termination with status 0; and every    *)
(* session whose input ended eventually terminates with status 0.          *)
(***************************************************************************)
C9_EndOfInputTerminates ==
    /\ [][/\ (pc = "loop" /\ running /\ last'.kind = "eof") =>
                /\ Responses(out') = <<Typewriter("\nGoodbye!")>>
                /\ ~running'
          /\ last.kind = "eof" =>
                /\ ~InputRead
                /\ last' = last /\ out' = out
                /\ pc' = "exited" /\ exitCode' = 0]_vars
    /\ (last.kind = "eof") ~> (pc = "exited" /\ exitCode = 0)

C9_Witness ==
    /\ last.kind = "eof"
    /\ Responses(out) = <<Typewriter("\nGoodbye!")>>
    /\ ~running
    /\ pc = "exited" /\ exitCode = 0

(***************************************************************************)
(* C10: an interrupt delivered during the blocking input read never ends   *)
(* the session: the hint about exit / quit is printed, prompt and running  *)
(* are unchanged, and the next step is another input read.                 *)
(***************************************************************************)
C10_InterruptIsCaught ==
    [][/\ (pc = "loop" /\ running /\ last'.kind = "interrupt") =>
            /\ Responses(out') =
                 <<Typewriter("\nUse 'exit' or 'quit' to end the session.")>>
            /\ prompt' = prompt /\ running' = running
            /\ pc' = "loop" /\ exitCode' = -1
       /\ last.kind = "interrupt" => InputRead]_vars

C10_Witness ==
    /\ last.kind = "interrupt"
    /\ Responses(out) = <<Typewriter("\nUse 'exit' or 'quit' to end the session.")>>
    /\ prompt = "NEW> "
    /\ pc = "loop" /\ running

(***************************************************************************)
(* C11: no input ends the session or crashes it except the exit command    *)
(* and end-of-input.  Whenever the loop reads a line that is not exit/quit *)
(* (free text, a builtin, an invocation with valid, unknown or value-less  *)
(* flags, unbalanced quotes) or takes an interrupt at the read, running is *)
(* still true afterwards, the loop goes on and the process has not exited. *)
(***************************************************************************)
C11_OnlyExitOrEofEnds ==
    [][(/\ pc = "loop" /\ running
        /\ last'.kind \in {"line", "interrupt"}
        /\ ~(last'.kind = "line" /\ IsExitLine(last'.line)))
          => (running' /\ pc' = "loop" /\ exitCode' = -1)]_vars

\* the session is alive after a line with unbalanced quotes that followed a
\* prompt change
C11_Witness ==
    /\ last = [kind |-> "line", line |-> "python script.py \"unbalanced -h"]
    /\ prompt = "x"
    /\ running /\ pc = "loop" /\ exitCode = -1

(***************************************************************************)
(* C12: when the process arguments parse with the help flag or the version *)
(* flag set, with or without a prompt flag beside it, the process ends     *)
(* with exit code 0 in main, before the session loop: at no point of the   *)
(* run is running true or has any input been read, and once main has acted *)
(* the process has exited with status 0.                                   *)
(***************************************************************************)
C12_StartupHelpVersionExit ==
    \A r \in {ParseArgs(argv)} :
        (r.ok /\ (r.ns.help \/ r.ns.version)) =>
            /\ ~running
            /\ last.kind \notin {"line", "interrupt", "eof"}
            /\ pc \in {"main", "exited"}
            /\ pc = "exited" => exitCode = 0

\* started with the version flag and a prompt flag, the process has exited
\* with status 0 and the prompt flag had no effect
C12_Witness ==
    /\ argv = <<"-v", "-p", "** ">>
    /\ pc = "exited" /\ exitCode = 0
    /\ ~running /\ prompt = DefaultPrompt

(***************************************************************************)
(* C13: at startup, what is printed for the help flag and what is printed  *)
(* for the version flag are both printed directly: when main has exited on *)
(* one of the two flags, it printed something and no part of it went       *)
(* through the typewriter effect.                                          *)
(***************************************************************************)
C13_StartupOutputDirect ==
    \A r \in {ParseArgs(argv)} :
        (pc = "exited" /\ last.kind = "argv" /\ r.ok /\ (r.ns.help \/ r.ns.version)) =>
            /\ out # <<>>
            /\ \A i \in 1..Len(out) : out[i].via = "print"

\* the line is an invocation whose tokens the flag parser accepts
ParsedInvocation(l, r) == IsInvocationLine(l) /\ Tokenizes(l) /\ r.ok

\* help or version is set, or a prompt value that is not the empty string
SomethingToApply(r) ==
    r.ns.help \/ r.ns.version \/ (r.ns.hasPrompt /\ r.ns.prompt # "")

(***************************************************************************)
(* C14 as stated: every in-session invocation line whose flags parse       *)
(* applies exactly one action, so exactly one response (help text, version *)
(* string or prompt confirmation) follows the echo.                        *)
(***************************************************************************)
C14_ExactlyOneAction ==
    [][\A l \in {last'.line} : \A r \in {FlagsOf(l)} :
        (ReadStep(l) /\ ParsedInvocation(l, r)) =>
            Len(Responses(out')) = 1]_vars

(***************************************************************************)
(* C14 amended: every in-session invocation line whose flags parse applies *)
(* at most one action, and exactly one when help or version is set or a    *)
(* non-empty prompt value is given; a parsed line with no flag, or with    *)
(* only an empty prompt value, prints nothing after the echo and changes   *)
(* nothing.  The prompt changes only together with its confirmation.       *)
(***************************************************************************)
C14_AtMostOneAction ==
    [][\A l \in {last'.line} : \A r \in {FlagsOf(l)} :
        (ReadStep(l) /\ ParsedInvocation(l, r)) =>
            /\ Len(Responses(out')) <= 1
            /\ SomethingToApply(r) => Len(Responses(out')) = 1
            /\ ~SomethingToApply(r) =>
                  /\ Responses(out') = <<>>
                  /\ prompt' = prompt /\ running' = running /\ pc' = pc
            /\ prompt' # prompt =>
                  /\ Len(Responses(out')) = 1
                  /\ IsConfirmation(Responses(out')[1])]_vars

\* the bare invocation line was read: the echo and nothing else
C14_Witness ==
    /\ last = [kind |-> "line", line |-> "python script.py"]
    /\ out = <<InputPrompt(prompt), EchoInput("python script.py")>>
    /\ running /\ pc = "loop"

\* the line is an invocation that shell-style tokenization rejects
BadQuotes(l) == IsInvocationLine(l) /\ ~Tokenizes(l)

\* invocation lines whose tokens the flag parser rejects
FlagErrorLines == {"python script.py --bogus", "python script.py -p"}

\* how the responses of an iteration were printed
Channels(o) == {Responses(o)[i].via : i \in 1..Len(Responses(o))}

\* the iteration printed one message and left prompt and running alone
CaughtAndPrinted(it, p) ==
    Len(Responses(it.out)) = 1 /\ it.prompt = p /\ it.running

TokensOf(l) == ShlexSplit(Strip(l)).toks

\* the tokens that `[2:]` leaves out
Discarded(toks) == SubSeq(toks, 1, IF Len(toks) < 2 THEN Len(toks) ELSE 2)

\* the second token of the line is the program name
NamesProgram(l) == Len(TokensOf(l)) >= 2 /\ TokensOf(l)[2] = "script.py"

\* the iteration treated the line as plain text: the echo, then the reply
\* that quotes the line back
TreatedAsText(l, o) ==
    Responses(o) = <<Typewriter("System: You said '" \o Strip(l) \o "'")>>

(***************************************************************************)
(* C16: for every line the loop handles as an invocation, the two tokens   *)
(* dropped after tokenization are exactly "python" and "script.py", so no  *)
(* flag or value the user typed is dropped; and a line whose second token  *)
(* is not the program name is not handled as an invocation: unless it is   *)
(* blank or a builtin it gets the free-text reply.                         *)
(***************************************************************************)
C16_DiscardedTokens ==
    [][\A l \in {last'.line} :
        (ReadStep(l) /\ Tokenizes(l) /\ ~AllWhitespace(l)) =>
            /\ IsInvocationLine(l) =>
                  Discarded(TokensOf(l)) = <<"python", "script.py">>
            /\ (/\ ~NamesProgram(l)
                /\ Lower(Strip(l)) \notin {"exit", "quit", "version", "help"})
                  => TreatedAsText(l, out')]_vars

\* some token after the two discarded ones is one of the given aliases
HasAlias(l, aliases) ==
    \E i \in 3..Len(TokensOf(l)) : TokensOf(l)[i] \in aliases

\* some token after the two discarded ones begins with '-' and is not one of
\* the six aliases of the table
HasOtherDashToken(l) ==
    \E i \in 3..Len(TokensOf(l)) :
        /\ StartsWith(TokensOf(l)[i], "-")
        /\ TokensOf(l)[i] \notin {"-h", "--help", "-v", "--version", "-p", "--prompt"}

(***************************************************************************)
(* C17: the flag parser sets help, version or prompt only for the exact    *)
(* alias tokens -h, --help, -v, --version, -p, --prompt.  On an in-session *)
(* invocation line, a token beginning with '-' that is none of the six     *)
(* makes the parse fail, so no help, version or prompt action follows; and *)
(* each of the three is set only if one of its two aliases is a token.     *)
(***************************************************************************)
C17_ExactAliasesOnly ==
    [][\A l \in {last'.line} : \A r \in {FlagsOf(l)} :
        (ReadStep(l) /\ IsInvocationLine(l) /\ Tokenizes(l)) =>
            /\ HasOtherDashToken(l) =>
                  /\ ~r.ok
                  /\ Channels(out') = {"stderr"}
                  /\ prompt' = prompt
            /\ r.ok =>
                  /\ r.ns.help => HasAlias(l, {"-h", "--help"})
                  /\ r.ns.version => HasAlias(l, {"-v", "--version"})
                  /\ r.ns.hasPrompt => HasAlias(l, {"-p", "--prompt"})]_vars

(***************************************************************************)
(* C18: once the loop runs, the prompt changes only in an iteration whose  *)
(* line is an invocation that carries a prompt value with neither help nor *)
(* version, and then it becomes that value; every other step (free text, a *)
(* builtin, a failed parse, an interrupt, end-of-input, the return) leaves *)
(* it unchanged.  The version never changes at all.                        *)
(***************************************************************************)
C18_PromptFrame ==
    [][/\ version' = version
       /\ \A l \in {last'.line} :
            (pc = "loop" /\ prompt' # prompt) =>
                /\ last'.kind = "line"
                /\ IsInvocationLine(l) /\ Tokenizes(l)
                /\ \A r \in {FlagsOf(l)} :
                      PromptOnly(r) /\ prompt' = r.ns.prompt]_vars

\* the prompt, changed once already, was changed again by an in-session line
C18_Witness ==
    /\ last = [kind |-> "line", line |-> "python script.py --prompt x"]
    /\ prompt = "x"
    /\ Responses(out) = <<Typewriter("Prompt changed from 'NEW> ' to 'x'")>>
    /\ version = DefaultVersion

(***************************************************************************)
(* C19: in every iteration whose trimmed input is not empty, the trimmed   *)
(* input is echoed exactly once, by the immediate print and not by the     *)
(* typewriter, right after the read and before every response of the       *)
(* iteration, whether the line is free text, a builtin, an invocation or   *)
(* an invocation that fails to parse.                                      *)
(***************************************************************************)
C19_EchoFirstAndOnce ==
    [][\A l \in {last'.line} :
        (ReadStep(l) /\ ~AllWhitespace(l)) =>
            /\ Len(out') >= 2
            /\ out'[2] = [via |-> "echo", text |-> "User: " \o Strip(l)]
            /\ \A i \in 1..Len(out') :
                  /\ i # 2 => out'[i].via # "echo"
                  /\ IsResponse(out'[i]) => i > 2]_vars

\* the echo of a builtin typed in capitals stands between the prompt and
\* the help text
C19_Witness ==
    /\ last = [kind |-> "line", line |-> "HELP"]
    /\ Len(out) = 3
    /\ out[2] = [via |-> "echo", text |-> "User: HELP"]
    /\ out[3] = ShowHelp

====
